---- MODULE Spec2Model ----
(***************************************************************************)
(* Model of the worm scanner (scan.js): the semver range matcher           *)
(* (satisfiesRange and its helpers), the manifest scan (scanPackageJSON),  *)
(* the lock-tree scan (scanPackageLock), the part of main that calls them, *)
(* and the fetch phase: fetchURL, the fetch-and-parse tasks and the merge  *)
(* of fetchCompromisedPackages.                                            *)
(*                                                                         *)
(* JavaScript strings that the code inspects character by character        *)
(* (specifiers, versions, the display text of a finding) are sequences of  *)
(* one-character strings: "~4.1.0" is <<"~","4",".","1",".","0">>.         *)
(* Package and section names are only compared for equality and stay       *)
(* TLA+ strings.                                                           *)
(***************************************************************************)
EXTENDS Integers, Sequences, FiniteSets, TLC

VARIABLES
    pc,            \* position of main / of the matcher harness
    compromised,   \* registry snapshot: package -> list of version texts
    hasPkgJSON,    \* package.json can be read and parsed
    pkgData,       \* parsed package.json: section -> list of [pkg, versionRange]
    hasPkgLock,    \* package-lock.json can be read and parsed
    pkgLockData,   \* parsed package-lock.json: list of dependency nodes
    findings,      \* main's findings list
    visited,       \* lock-tree nodes whose body the scan loop evaluated (paths)
    specifier,     \* matcher harness: the versionRange argument of satisfiesRange
    candidate,     \* matcher harness: the version argument of satisfiesRange
    result,        \* matcher harness: value returned by satisfiesRange
    drawn,         \* matcher harness: the structure the two texts were written from
    req,               \* per source: the https request and its response
    promise,           \* per source: state of the promise fetchURL returned
    responseTimeout,   \* per source: the timer set in the response callback
    pendingRequests,   \* per source: the promise of the fetch-and-parse task
    results,           \* what Promise.allSettled delivered, per source
    masterList         \* fetchCompromisedPackages: package -> Set of versions

fetchVars == <<req, promise, responseTimeout, pendingRequests, results, masterList>>

vars == <<pc, compromised, hasPkgJSON, pkgData, hasPkgLock, pkgLockData,
          findings, visited, specifier, candidate, result, drawn,
          req, promise, responseTimeout, pendingRequests, results, masterList>>

(***************************************************************************)
(* Bounds of the model.                                                    *)
(***************************************************************************)
\* version components of matcher inputs range over 0..MaxComp and 10
MaxComp == 1
\* version components of hyphen-range inputs and of the candidates tried
\* against hyphen ranges and comparator chains: 0..MaxRangeComp
MaxRangeComp == 1
\* number of comparator tokens in a chain
MaxTokens == 2
\* number of compromised versions listed for one package
MaxVers == 2
\* number of declarations in a manifest
MaxDecls == 2
\* number of nodes in a lock tree
MaxNodes == 3

(***************************************************************************)
(* Strings as character sequences.                                         *)
(***************************************************************************)
Digits == <<"0", "1", "2", "3", "4", "5", "6", "7", "8", "9">>

IsDigit(c) == \E d \in 1..10 : Digits[d] = c

DigitValue(c) == (CHOOSE d \in 1..10 : Digits[d] = c) - 1

\* the only whitespace character of the inputs is the plain space
IsSpace(c) == c = " "

\* decimal text of a natural number (what template strings and the advisory
\* pages write)
RECURSIVE NatText(_)
NatText(n) ==
    IF n < 10 THEN <<Digits[n + 1]>>
    ELSE NatText(n \div 10) \o <<Digits[(n % 10) + 1]>>

\* "A.B.C"
VersionText(a, b, c) ==
    NatText(a) \o <<".">> \o NatText(b) \o <<".">> \o NatText(c)

\* String.prototype.substring(n)
Substring(s, n) == SubSeq(s, n + 1, Len(s))

\* String.prototype.startsWith
StartsWith(s, p) == Len(p) <= Len(s) /\ SubSeq(s, 1, Len(p)) = p

\* String.prototype.endsWith
EndsWith(s, p) ==
    Len(p) <= Len(s) /\ SubSeq(s, Len(s) - Len(p) + 1, Len(s)) = p

\* String.prototype.includes
Includes(s, p) ==
    \E i \in 1..(Len(s) - Len(p) + 1) : SubSeq(s, i, i + Len(p) - 1) = p

\* index of the first occurrence of p in s at or after position i, 0 if none
RECURSIVE IndexFrom(_, _, _)
IndexFrom(s, p, i) ==
    IF i + Len(p) - 1 > Len(s) THEN 0
    ELSE IF SubSeq(s, i, i + Len(p) - 1) = p THEN i
    ELSE IndexFrom(s, p, i + 1)

\* String.prototype.split(sep) for a non-empty literal separator
RECURSIVE SplitStr(_, _)
SplitStr(s, sep) ==
    LET i == IndexFrom(s, sep, 1)
    IN  IF i = 0 THEN <<s>>
        ELSE <<SubSeq(s, 1, i - 1)>> \o SplitStr(Substring(s, i + Len(sep) - 1), sep)

\* String.prototype.split(/\s+/): a run of whitespace is one separator
RECURSIVE SkipSpaces(_)
SkipSpaces(s) ==
    IF s # <<>> /\ IsSpace(Head(s)) THEN SkipSpaces(Tail(s)) ELSE s

RECURSIVE FirstSpace(_, _)
FirstSpace(s, i) ==
    IF i > Len(s) THEN 0
    ELSE IF IsSpace(s[i]) THEN i
    ELSE FirstSpace(s, i + 1)

RECURSIVE SplitWhitespace(_)
SplitWhitespace(s) ==
    LET i == FirstSpace(s, 1)
    IN  IF i = 0 THEN <<s>>
        ELSE <<SubSeq(s, 1, i - 1)>> \o SplitWhitespace(SkipSpaces(Substring(s, i - 1)))

\* String.prototype.replace(/\.x|\.\*/g, ''): every ".x" and ".*" is removed,
\* scanning left to right
RECURSIVE StripWildcards(_)
StripWildcards(s) ==
    IF s = <<>> THEN <<>>
    ELSE IF StartsWith(s, <<".", "x">>) \/ StartsWith(s, <<".", "*">>)
         THEN StripWildcards(Substring(s, 2))
    ELSE <<Head(s)>> \o StripWildcards(Tail(s))

(***************************************************************************)
(* Numbers read from text.  NaN is a value no version component equals.    *)
(***************************************************************************)
NaN == -1

RECURSIVE DigitPrefix(_)
DigitPrefix(s) ==
    IF s # <<>> /\ IsDigit(Head(s)) THEN <<Head(s)>> \o DigitPrefix(Tail(s))
    ELSE <<>>

RECURSIVE DecimalValue(_)
DecimalValue(ds) ==
    IF ds = <<>> THEN 0
    ELSE 10 * DecimalValue(SubSeq(ds, 1, Len(ds) - 1)) + DigitValue(ds[Len(ds)])

\* parseInt(p, 10): leading whitespace is skipped, the longest digit prefix is
\* read, anything after it is ignored; no digit gives NaN.  (A sign cannot
\* occur: parseVersion cuts its argument at the first '-' or '+'.)
parseInt(p) ==
    LET ds == DigitPrefix(SkipSpaces(p))
    IN  IF ds = <<>> THEN NaN ELSE DecimalValue(ds)

RECURSIVE TrimEnd(_)
TrimEnd(s) ==
    IF s # <<>> /\ IsSpace(s[Len(s)]) THEN TrimEnd(SubSeq(s, 1, Len(s) - 1)) ELSE s

\* Number(p): the whole trimmed text must be a numeral; the empty text is 0.
\* Of the numerals JavaScript accepts, only plain decimal digit strings occur
\* in the inputs.
Number(p) ==
    LET t == TrimEnd(SkipSpaces(p))
    IN  IF t = <<>> THEN 0
        ELSE IF DigitPrefix(t) = t THEN DecimalValue(t)
        ELSE NaN

\* x || 0 for a number x: NaN and 0 give 0
OrZero(x) == IF x = NaN THEN 0 ELSE x

(***************************************************************************)
(* parseVersion and the comparison helpers.                                *)
(***************************************************************************)
\* version.split(/[-+]/)[0]
RECURSIVE MainVersion(_)
MainVersion(s) ==
    IF s = <<>> \/ Head(s) \in {"-", "+"} THEN <<>>
    ELSE <<Head(s)>> \o MainVersion(Tail(s))

parseVersion(v) ==
    LET split == SplitStr(MainVersion(v), <<".">>)
        parts == [i \in 1..Len(split) |-> parseInt(split[i])]
        Part(i) == IF i <= Len(parts) THEN OrZero(parts[i]) ELSE 0
    IN  [major |-> Part(1), minor |-> Part(2), patch |-> Part(3)]

isVersionGreaterOrEqual(v1, v2) ==
    \/ v1.major > v2.major
    \/ (v1.major = v2.major /\ v1.minor > v2.minor)
    \/ (v1.major = v2.major /\ v1.minor = v2.minor /\ v1.patch >= v2.patch)

isVersionGreater(v1, v2) ==
    \/ v1.major > v2.major
    \/ (v1.major = v2.major /\ v1.minor > v2.minor)
    \/ (v1.major = v2.major /\ v1.minor = v2.minor /\ v1.patch > v2.patch)

isVersionLessOrEqual(v1, v2) ==
    \/ v1.major < v2.major
    \/ (v1.major = v2.major /\ v1.minor < v2.minor)
    \/ (v1.major = v2.major /\ v1.minor = v2.minor /\ v1.patch <= v2.patch)

isVersionLess(v1, v2) ==
    \/ v1.major < v2.major
    \/ (v1.major = v2.major /\ v1.minor < v2.minor)
    \/ (v1.major = v2.major /\ v1.minor = v2.minor /\ v1.patch < v2.patch)

(***************************************************************************)
(* isRange and satisfiesRange.                                             *)
(***************************************************************************)
RangeChars == {"^", "~", ">", "<", "=", ".", "*", "x", "X"}

\* /[\^~><=.*xX]/.test(version) || version.includes(' - ')
isRange(version) ==
    \/ \E i \in 1..Len(version) : version[i] \in RangeChars
    \/ Includes(version, <<" ", "-", " ">>)

\* the fallback after the try block: versionRange.includes(version)
includesFallback(versionRange, version) == Includes(versionRange, version)

\* tilde branch that forgets the minor component
satisfiesTildeAnyMinor(versionRange, parsedVersion) ==
    LET parsedBase == parseVersion(Substring(versionRange, 1))
    IN  /\ parsedVersion.major = parsedBase.major
        /\ parsedVersion.patch >= parsedBase.patch

\* tilde branch
satisfiesTilde(versionRange, parsedVersion) ==
    LET parsedBase == parseVersion(Substring(versionRange, 1))
    IN  /\ parsedVersion.major = parsedBase.major
        /\ parsedVersion.minor = parsedBase.minor
        /\ parsedVersion.patch >= parsedBase.patch

\* caret branch without the special case for a 0.y.z base
satisfiesCaretNoZeroCase(versionRange, parsedVersion) ==
    LET parsedBase == parseVersion(Substring(versionRange, 1))
    IN  /\ parsedVersion.major = parsedBase.major
        /\ \/ parsedVersion.minor > parsedBase.minor
           \/ /\ parsedVersion.minor = parsedBase.minor
              /\ parsedVersion.patch >= parsedBase.patch

\* caret branch
satisfiesCaret(versionRange, parsedVersion) ==
    LET parsedBase == parseVersion(Substring(versionRange, 1))
    IN  IF parsedBase.major = 0
        THEN /\ parsedVersion.major = 0
             /\ parsedVersion.minor = parsedBase.minor
             /\ parsedVersion.patch >= parsedBase.patch
        ELSE /\ parsedVersion.major = parsedBase.major
             /\ \/ parsedVersion.minor > parsedBase.minor
                \/ /\ parsedVersion.minor = parsedBase.minor
                   /\ parsedVersion.patch >= parsedBase.patch

\* wildcard branch that compares the major component only
satisfiesWildcardMajorOnly(versionRange, version, parsedVersion) ==
    LET split == SplitStr(StripWildcards(versionRange), <<".">>)
        parts == [i \in 1..Len(split) |-> Number(split[i])]
    IN  IF Len(parts) \in {1, 2} THEN parsedVersion.major = parts[1]
        ELSE includesFallback(versionRange, version)

\* wildcard branch; with three or more parts left neither return is taken and
\* control falls out of the try block to the fallback
satisfiesWildcard(versionRange, version, parsedVersion) ==
    LET split == SplitStr(StripWildcards(versionRange), <<".">>)
        parts == [i \in 1..Len(split) |-> Number(split[i])]
    IN  IF Len(parts) = 1 THEN parsedVersion.major = parts[1]
        ELSE IF Len(parts) = 2
             THEN parsedVersion.major = parts[1] /\ parsedVersion.minor = parts[2]
        ELSE includesFallback(versionRange, version)

\* hyphen branch with an exclusive upper end
satisfiesHyphenOpenEnd(versionRange, parsedVersion) ==
    LET ends == SplitStr(versionRange, <<" ", "-", " ">>)
        min == parseVersion(ends[1])
        max == parseVersion(ends[2])
    IN  /\ isVersionGreaterOrEqual(parsedVersion, min)
        /\ isVersionLess(parsedVersion, max)

\* hyphen branch: [min, max] are the first two pieces of split(' - ')
satisfiesHyphen(versionRange, parsedVersion) ==
    LET ends == SplitStr(versionRange, <<" ", "-", " ">>)
        min == parseVersion(ends[1])
        max == parseVersion(ends[2])
    IN  /\ isVersionGreaterOrEqual(parsedVersion, min)
        /\ isVersionLessOrEqual(parsedVersion, max)

\* loop body that tests '>' before '>=', so that ">=" is read as a strict bound
\* on the text after the first character
conditionHoldsPrefixOrder(condition, parsedVersion) ==
    IF StartsWith(condition, <<">">>)
    THEN isVersionGreater(parsedVersion,
                          parseVersion(Substring(condition,
                              IF StartsWith(condition, <<">", "=">>) THEN 2 ELSE 1)))
    ELSE IF StartsWith(condition, <<"<", "=">>)
    THEN isVersionLessOrEqual(parsedVersion, parseVersion(Substring(condition, 2)))
    ELSE IF StartsWith(condition, <<"<">>)
    THEN isVersionLess(parsedVersion, parseVersion(Substring(condition, 1)))
    ELSE TRUE

\* one pass of the loop body over a comparator token: FALSE where the code
\* returns false, TRUE where it goes on to the next token
conditionHolds(condition, parsedVersion) ==
    IF StartsWith(condition, <<">", "=">>)
    THEN isVersionGreaterOrEqual(parsedVersion, parseVersion(Substring(condition, 2)))
    ELSE IF StartsWith(condition, <<">">>)
    THEN isVersionGreater(parsedVersion, parseVersion(Substring(condition, 1)))
    ELSE IF StartsWith(condition, <<"<", "=">>)
    THEN isVersionLessOrEqual(parsedVersion, parseVersion(Substring(condition, 2)))
    ELSE IF StartsWith(condition, <<"<">>)
    THEN isVersionLess(parsedVersion, parseVersion(Substring(condition, 1)))
    ELSE TRUE

\* the loop over the tokens: false at the first token that fails, true at the end
RECURSIVE conditionsHold(_, _)
conditionsHold(conditions, parsedVersion) ==
    IF conditions = <<>> THEN TRUE
    ELSE IF ~conditionHolds(Head(conditions), parsedVersion) THEN FALSE
    ELSE conditionsHold(Tail(conditions), parsedVersion)

\* comparator branch
satisfiesComparators(versionRange, parsedVersion) ==
    conditionsHold(SplitWhitespace(versionRange), parsedVersion)

\* No statement of the try block throws on string arguments, so the catch
\* clause is not entered.
satisfiesRange(versionRange, version) ==
    IF ~isRange(versionRange) THEN versionRange = version
    ELSE LET parsedVersion == parseVersion(version)
         IN  IF StartsWith(versionRange, <<"~">>)
             THEN satisfiesTilde(versionRange, parsedVersion)
             ELSE IF StartsWith(versionRange, <<"^">>)
             THEN satisfiesCaret(versionRange, parsedVersion)
             ELSE IF \/ EndsWith(versionRange, <<".", "x">>)
                     \/ EndsWith(versionRange, <<".", "*">>)
             THEN satisfiesWildcard(versionRange, version, parsedVersion)
             ELSE IF Includes(versionRange, <<" ", "-", " ">>)
             THEN satisfiesHyphen(versionRange, parsedVersion)
             ELSE IF \/ Includes(versionRange, <<">", "=">>)
                     \/ Includes(versionRange, <<"<", "=">>)
                     \/ Includes(versionRange, <<">">>)
                     \/ Includes(versionRange, <<"<">>)
             THEN satisfiesComparators(versionRange, parsedVersion)
             ELSE includesFallback(versionRange, version)

(***************************************************************************)
(* scanPackageJSON and scanPackageLock.  A finding is                      *)
(* [pkg, version, section]; version is the display text.                   *)
(***************************************************************************)
sections == <<"dependencies", "devDependencies", "peerDependencies",
              "optionalDependencies", "bundleDependencies", "bundledDependencies">>

\* `${versionRange} (matches ${compVersion})`
MatchesText(text, compVersion) ==
    text \o <<" ", "(", "m", "a", "t", "c", "h", "e", "s", " ">> \o compVersion \o <<")">>

\* the loop without its break statements: every satisfying version pushes
RECURSIVE jsonVersionLoopNoBreak(_, _, _, _)
jsonVersionLoopNoBreak(pkg, versionRange, section, compVersions) ==
    IF compVersions = <<>> THEN <<>>
    ELSE LET compVersion == Head(compVersions)
         IN  (IF versionRange = compVersion
              THEN <<[pkg |-> pkg, version |-> versionRange, section |-> section]>>
              ELSE IF satisfiesRange(versionRange, compVersion)
              THEN <<[pkg |-> pkg,
                      version |-> MatchesText(versionRange, compVersion),
                      section |-> section]>>
              ELSE <<>>)
             \o jsonVersionLoopNoBreak(pkg, versionRange, section, Tail(compVersions))

\* the loop run from the last compromised version to the first
RECURSIVE jsonVersionLoopBackwards(_, _, _, _)
jsonVersionLoopBackwards(pkg, versionRange, section, compVersions) ==
    IF compVersions = <<>> THEN <<>>
    ELSE LET compVersion == compVersions[Len(compVersions)]
         IN  IF versionRange = compVersion
             THEN <<[pkg |-> pkg, version |-> versionRange, section |-> section]>>
             ELSE IF satisfiesRange(versionRange, compVersion)
             THEN <<[pkg |-> pkg,
                     version |-> MatchesText(versionRange, compVersion),
                     section |-> section]>>
             ELSE jsonVersionLoopBackwards(pkg, versionRange, section,
                        SubSeq(compVersions, 1, Len(compVersions) - 1))

\* the loop over compromised[pkg] in scanPackageJSON: the first version that
\* is equal to or satisfied by the specifier pushes one finding and breaks
RECURSIVE jsonVersionLoop(_, _, _, _)
jsonVersionLoop(pkg, versionRange, section, compVersions) ==
    IF compVersions = <<>> THEN <<>>
    ELSE LET compVersion == Head(compVersions)
         IN  IF versionRange = compVersion
             THEN <<[pkg |-> pkg, version |-> versionRange, section |-> section]>>
             ELSE IF satisfiesRange(versionRange, compVersion)
             THEN <<[pkg |-> pkg,
                     version |-> MatchesText(versionRange, compVersion),
                     section |-> section]>>
             ELSE jsonVersionLoop(pkg, versionRange, section, Tail(compVersions))

\* the loop over Object.entries(pkgData[section])
RECURSIVE jsonEntryLoop(_, _, _)
jsonEntryLoop(entries, section, comp) ==
    IF entries = <<>> THEN <<>>
    ELSE LET e == Head(entries)
         IN  (IF e.pkg \in DOMAIN comp
              THEN jsonVersionLoop(e.pkg, e.versionRange, section, comp[e.pkg])
              ELSE <<>>)
             \o jsonEntryLoop(Tail(entries), section, comp)

\* the loop over the fixed section list; a section the manifest lacks has no
\* entries
RECURSIVE jsonSectionLoop(_, _, _)
jsonSectionLoop(data, comp, i) ==
    IF i > Len(sections) THEN <<>>
    ELSE jsonEntryLoop(data[sections[i]], sections[i], comp)
         \o jsonSectionLoop(data, comp, i + 1)

scanPackageJSON(data, comp) == jsonSectionLoop(data, comp, 1)

\* the loop over compromised[pkg] in scanPackageLock
RECURSIVE lockVersionLoop(_, _, _)
lockVersionLoop(pkg, metaVersion, compVersions) ==
    IF compVersions = <<>> THEN <<>>
    ELSE LET compVersion == Head(compVersions)
         IN  IF metaVersion = compVersion
             THEN <<[pkg |-> pkg, version |-> metaVersion, section |-> "package-lock"]>>
             ELSE IF satisfiesRange(metaVersion, compVersion)
             THEN <<[pkg |-> pkg,
                     version |-> MatchesText(metaVersion, compVersion),
                     section |-> "package-lock"]>>
             ELSE lockVersionLoop(pkg, metaVersion, Tail(compVersions))

\* the walk that does not descend below a node it pushed a finding for
RECURSIVE lockEntryLoopStopAtHit(_, _, _, _)
lockEntryLoopStopAtHit(deps, comp, prefix, i) ==
    IF i > Len(deps) THEN <<>>
    ELSE LET meta == deps[i]
             path == Append(prefix, i)
             pushed == IF meta.pkg \in DOMAIN comp
                       THEN lockVersionLoop(meta.pkg, meta.version, comp[meta.pkg])
                       ELSE <<>>
         IN  IF meta.version = <<>>
             THEN lockEntryLoopStopAtHit(deps, comp, prefix, i + 1)
             ELSE <<[path |-> path, pushed |-> pushed]>>
                  \o (IF pushed = <<>>
                      THEN lockEntryLoopStopAtHit(meta.dependencies, comp, path, 1)
                      ELSE <<>>)
                  \o lockEntryLoopStopAtHit(deps, comp, prefix, i + 1)

\* A lock node is [pkg, version, dependencies]: version <<>> stands for a
\* missing (or empty) version field, dependencies <<>> for a missing (or
\* empty) nested map.  The walk returns, in the order the loop body runs, one
\* record per node that passes the `if (!meta.version) continue` test: the
\* node's path (child indices from the root) and the findings pushed for it.
RECURSIVE lockEntryLoop(_, _, _, _)
lockEntryLoop(deps, comp, prefix, i) ==
    IF i > Len(deps) THEN <<>>
    ELSE LET meta == deps[i]
             path == Append(prefix, i)
         IN  IF meta.version = <<>>
             THEN lockEntryLoop(deps, comp, prefix, i + 1)
             ELSE <<[path |-> path,
                     pushed |-> IF meta.pkg \in DOMAIN comp
                                THEN lockVersionLoop(meta.pkg, meta.version, comp[meta.pkg])
                                ELSE <<>>]>>
                  \o lockEntryLoop(meta.dependencies, comp, path, 1)
                  \o lockEntryLoop(deps, comp, prefix, i + 1)

RECURSIVE PushedOf(_)
PushedOf(walk) ==
    IF walk = <<>> THEN <<>> ELSE Head(walk).pushed \o PushedOf(Tail(walk))

PathsOf(walk) == [i \in 1..Len(walk) |-> walk[i].path]

scanPackageLock(deps, comp) == PushedOf(lockEntryLoop(deps, comp, <<>>, 1))

(***************************************************************************)
(* fetchCompromisedPackages: the merge of the per-source results.  A       *)
(* fragment and masterList map a package to a Set of version texts; a Set  *)
(* is the sequence of its members in insertion order, which is the order   *)
(* its iteration and Array.from deliver.                                   *)
(***************************************************************************)
\* entries of ADVISORY_SOURCES
NumSources == 4

Sources == 1..NumSources

\* the object {}
NoPackages == [p \in {} |-> <<>>]

\* push in place of Set.prototype.add: a member already there is added again
SetPush(set, v) == Append(set, v)

\* Set.prototype.add: a member already there (the same string) is not added
SetAdd(set, v) ==
    IF \E i \in 1..Len(set) : set[i] = v THEN set ELSE Append(set, v)

\* for (const v of versSet) masterList[pkg].add(v)
RECURSIVE addAll(_, _)
addAll(set, versSet) ==
    IF versSet = <<>> THEN set
    ELSE addAll(SetAdd(set, Head(versSet)), Tail(versSet))

\* the entries loop of one result keeping, for a package masterList already
\* has, the versions it has
mergeFragmentFirstWins(master, value) ==
    [p \in DOMAIN master \cup DOMAIN value |->
        IF p \in DOMAIN master THEN master[p] ELSE addAll(<<>>, value[p])]

\* the entries loop of one result; the entry of a package is created before
\* its versions are added, whether or not there are any
mergeFragment(master, value) ==
    [p \in DOMAIN master \cup DOMAIN value |->
        addAll(IF p \in DOMAIN master THEN master[p] ELSE <<>>,
               IF p \in DOMAIN value THEN value[p] ELSE <<>>)]

\* the results loop stopping at the first result that brings no package
RECURSIVE mergeResultsUntilEmpty(_, _, _)
mergeResultsUntilEmpty(master, rs, i) ==
    IF i > Len(rs) \/ DOMAIN rs[i].value = {} THEN master
    ELSE mergeResultsUntilEmpty(mergeFragment(master, rs[i].value), rs, i + 1)

\* for (const result of results) from the i-th result on
RECURSIVE mergeResults(_, _, _)
mergeResults(master, rs, i) ==
    IF i > Len(rs) THEN master
    ELSE IF rs[i].status = "fulfilled"
    THEN mergeResults(mergeFragment(master, rs[i].value), rs, i + 1)
    ELSE mergeResults(master, rs, i + 1)

\* for (const k in masterList) masterList[k] = Array.from(masterList[k])
snapshot(master) ==
    [k \in DOMAIN master |-> [j \in 1..Len(master[k]) |-> master[k][j]]]

\* the record Promise.allSettled delivers for a fulfilled task
Fulfilled(v) == [status |-> "fulfilled", value |-> v]

\* no request has been made
FetchIdle ==
    /\ req = [i \in Sources |-> "none"]
    /\ promise = [i \in Sources |-> "none"]
    /\ responseTimeout = [i \in Sources |-> "none"]
    /\ pendingRequests = [i \in Sources |-> [status |-> "none", via |-> "none",
                                              value |-> NoPackages]]
    /\ results = <<>>
    /\ masterList = NoPackages

\* every source answered completely and vals[i] is what its page parsed to
AllParsed(vals) ==
    /\ req = [i \in Sources |-> "closed"]
    /\ promise = [i \in Sources |-> "resolved"]
    /\ responseTimeout = [i \in Sources |-> "cleared"]
    /\ pendingRequests = [i \in Sources |-> [status |-> "fulfilled", via |-> "parsed",
                                              value |-> vals[i]]]
    /\ results = [i \in Sources |-> Fulfilled(vals[i])]

\* fetchCompromisedPackages has returned reg, delivered by the first source
FetchOver(reg) ==
    /\ AllParsed([i \in Sources |-> IF i = 1 THEN reg ELSE NoPackages])
    /\ masterList = reg

(***************************************************************************)
(* Inputs of the matcher harness.  A specifier is drawn as a list of       *)
(* clauses [op, v] (operator text and version triple) and written out as   *)
(* text; satisfiesRange only ever sees the text.                           *)
(***************************************************************************)
Comps == (0..MaxComp) \cup {10}

RangeComps == 0..MaxRangeComp

Triples(S) == {<<a, b, c>> : a \in S, b \in S, c \in S}

TripleText(v) == VersionText(v[1], v[2], v[3])

\* pre-release suffixes a candidate may carry
Suffixes == {<<>>, <<"-", "r", "c">>}

\* operators of comparator tokens; "=" is a prefix the code does not recognise
RecognisedOps == {<<">", "=">>, <<">">>, <<"<", "=">>, <<"<">>}

ChainOps == RecognisedOps \cup {<<"=">>}

\* versions written in comparator tokens
ChainBases == {<<0, 1, 1>>, <<1, 0, 1>>, <<1, 1, 0>>}

Clauses(ops, S) == {[op |-> o, v |-> v] : o \in ops, v \in S}

ChainTokens == Clauses(ChainOps, ChainBases)

RECURSIVE SeqsOfLen(_, _)
SeqsOfLen(S, n) ==
    IF n = 0 THEN {<<>>}
    ELSE {<<x>> \o r : x \in S, r \in SeqsOfLen(S, n - 1)}

SeqsUpTo(S, n) == UNION {SeqsOfLen(S, k) : k \in 1..n}

ClauseText(c) == c.op \o TripleText(c.v)

RECURSIVE JoinClauses(_, _)
JoinClauses(cs, sep) ==
    IF Len(cs) = 1 THEN ClauseText(cs[1])
    ELSE ClauseText(cs[1]) \o sep \o JoinClauses(Tail(cs), sep)

\* the fixed components of a wildcard specifier, joined by dots
RECURSIVE DotText(_)
DotText(v) ==
    IF Len(v) = 1 THEN NatText(v[1])
    ELSE NatText(v[1]) \o <<".">> \o DotText(Tail(v))

\* a wildcard clause holds its fixed components in v and the free component
\* ("x" or "*") in op; an unparsable clause holds a word in v
SpecifierText(kind, clauses) ==
    IF kind = "wildcard"
    THEN DotText(clauses[1].v) \o <<".">> \o clauses[1].op
    ELSE IF kind = "unparsable" THEN clauses[1].op \o clauses[1].v
    ELSE JoinClauses(clauses, IF kind = "hyphen" THEN <<" ", "-", " ">> ELSE <<" ">>)

\* fixed components of wildcard specifiers: A or A.B
WildcardFixed == SeqsOfLen(Comps, 1) \cup SeqsOfLen(Comps, 2)

\* words written where a version is expected
Words == {<<"l", "a", "t", "e", "s", "t">>, <<"b", "e", "t", "a">>}

UnparsableOps == {<<"~">>, <<"^">>, <<">", "=">>, <<"<">>}

CandidateText(v, suffix) == TripleText(v) \o suffix

DrawnSpecifiers ==
    {[kind |-> "exact", clauses |-> <<c>>] : c \in Clauses({<<>>}, Triples(Comps))}
    \cup
    {[kind |-> "tilde", clauses |-> <<c>>] : c \in Clauses({<<"~">>}, Triples(Comps))}
    \cup
    {[kind |-> "caret", clauses |-> <<c>>] : c \in Clauses({<<"^">>}, Triples(Comps))}
    \cup
    {[kind |-> "hyphen", clauses |-> cs] :
        cs \in SeqsOfLen(Clauses({<<>>}, Triples(RangeComps)), 2)}
    \cup
    {[kind |-> "chain", clauses |-> cs] : cs \in SeqsUpTo(ChainTokens, MaxTokens)}
    \cup
    {[kind |-> "wildcard", clauses |-> <<c>>] :
        c \in Clauses({<<"x">>, <<"*">>}, WildcardFixed)}
    \cup
    {[kind |-> "unparsable", clauses |-> <<c>>] : c \in Clauses(UnparsableOps, Words)}

CandidatesFor(kind) ==
    IF kind \in {"hyphen", "chain"} THEN Triples(RangeComps) ELSE Triples(Comps)

SuffixesFor(kind) == IF kind = "chain" THEN {<<>>} ELSE Suffixes

InitMatch ==
    /\ pc = "match"
    /\ \E g \in DrawnSpecifiers :
         \E v \in CandidatesFor(g.kind) :
           \E sfx \in SuffixesFor(g.kind) :
             /\ drawn = [kind |-> g.kind, clauses |-> g.clauses,
                         version |-> v, suffix |-> sfx]
             /\ specifier = SpecifierText(g.kind, g.clauses)
             /\ candidate = CandidateText(v, sfx)
    /\ result = FALSE
    /\ compromised = <<>>
    /\ hasPkgJSON = FALSE
    /\ pkgData = <<>>
    /\ hasPkgLock = FALSE
    /\ pkgLockData = <<>>
    /\ findings = <<>>
    /\ visited = <<>>
    /\ FetchIdle

\* the harness applies the matcher to the drawn texts
Match ==
    /\ pc = "match"
    /\ result' = satisfiesRange(specifier, candidate)
    /\ pc' = "matched"
    /\ UNCHANGED <<compromised, hasPkgJSON, pkgData, hasPkgLock, pkgLockData,
                   findings, visited, specifier, candidate, drawn>>
    /\ UNCHANGED fetchVars

NextMatch == Match

SpecMatch == InitMatch /\ [][NextMatch]_vars

(***************************************************************************)
(* Inputs of main: a registry snapshot as fetchCompromisedPackages returns *)
(* it (every listed package has a non-empty list without repetitions), a   *)
(* parsed package.json and a parsed package-lock.json.                     *)
(***************************************************************************)
Tinycolor == "@ctrl/tinycolor"

Angulartics == "angulartics2"

Pkgs == {Tinycolor, Angulartics}

V400 == VersionText(4, 0, 0)

V410 == VersionText(4, 1, 0)

V411 == VersionText(4, 1, 1)

V4110 == VersionText(4, 1, 10)

Range(f) == {f[i] : i \in DOMAIN f}

\* sequences over S without repetitions, of length 0..n
RECURSIVE UniqueSeqs(_, _)
UniqueSeqs(S, n) ==
    IF n = 0 THEN {<<>>}
    ELSE {<<>>} \cup UNION {
            {<<x>> \o r : r \in {q \in UniqueSeqs(S, n - 1) : x \notin Range(q)}}
            : x \in S}

RegistryOf(tiny, angul) ==
    [p \in {q \in Pkgs : (IF q = Tinycolor THEN tiny ELSE angul) # <<>>}
        |-> IF p = Tinycolor THEN tiny ELSE angul]

Registries ==
    {RegistryOf(t, a) : t \in UniqueSeqs({V410, V411, V4110}, MaxVers),
                        a \in {<<>>, <<V411>>}}

ManifestSpecifiers == {V400, V411, V4110, <<"~">> \o V410}

\* the sections the drawn manifests declare packages in: the first and the
\* last of the section list
DeclSections == {"dependencies", "bundledDependencies"}

Decls ==
    {[section |-> sec, pkg |-> p, versionRange |-> r] :
        sec \in DeclSections, p \in Pkgs, r \in ManifestSpecifiers}

\* declarations in file order; a package is a key of a section at most once
RECURSIVE DeclSeqs(_)
DeclSeqs(n) ==
    IF n = 0 THEN {<<>>}
    ELSE {<<>>} \cup UNION {
            {<<d>> \o r : r \in {q \in DeclSeqs(n - 1) :
                                    \A j \in 1..Len(q) :
                                        q[j].section # d.section \/ q[j].pkg # d.pkg}}
            : d \in Decls}

RECURSIVE EntriesOf(_, _)
EntriesOf(ds, sec) ==
    IF ds = <<>> THEN <<>>
    ELSE (IF Head(ds).section = sec
          THEN <<[pkg |-> Head(ds).pkg, versionRange |-> Head(ds).versionRange]>>
          ELSE <<>>)
         \o EntriesOf(Tail(ds), sec)

ManifestOf(ds) == [sec \in Range(sections) |-> EntriesOf(ds, sec)]

Manifests(n) == {ManifestOf(ds) : ds \in DeclSeqs(n)}

\* resolved versions of lock nodes; <<>> is a node without a version field
LockVersions == {<<>>, V411, V4110}

\* dependency maps with at most n nodes in all; sibling keys are distinct
RECURSIVE LockTrees(_)
LockTrees(n) ==
    IF n = 0 THEN {<<>>}
    ELSE {<<>>} \cup UNION {
            {<<[pkg |-> x[2], version |-> v, dependencies |-> kids]>> \o rest :
                v \in LockVersions, kids \in LockTrees(x[1] - 1),
                rest \in {r \in LockTrees(n - x[1]) :
                            \A j \in 1..Len(r) : r[j].pkg # x[2]}}
            : x \in (1..n) \X Pkgs}

(***************************************************************************)
(* main, from the return of fetchCompromisedPackages on.                   *)
(***************************************************************************)
InitMatcherIdle ==
    /\ specifier = <<>>
    /\ candidate = <<>>
    /\ result = FALSE
    /\ drawn = [kind |-> "none", clauses |-> <<>>, version |-> <<>>,
                suffix |-> <<>>]

\* package.json is there, package-lock.json is not
InitManifest ==
    /\ pc = "fetched"
    /\ compromised \in Registries
    /\ hasPkgJSON = TRUE
    /\ pkgData \in Manifests(MaxDecls)
    /\ hasPkgLock = FALSE
    /\ pkgLockData = <<>>
    /\ findings = <<>>
    /\ visited = <<>>
    /\ InitMatcherIdle
    /\ FetchOver(compromised)

\* package-lock.json is there, package.json is not
InitLock ==
    /\ pc = "fetched"
    /\ compromised \in Registries
    /\ hasPkgJSON = FALSE
    /\ pkgData = ManifestOf(<<>>)
    /\ hasPkgLock = TRUE
    /\ pkgLockData \in LockTrees(MaxNodes)
    /\ findings = <<>>
    /\ visited = <<>>
    /\ InitMatcherIdle
    /\ FetchOver(compromised)

\* both files are there
InitBoth ==
    /\ pc = "fetched"
    /\ compromised \in Registries
    /\ hasPkgJSON = TRUE
    /\ pkgData \in Manifests(1)
    /\ hasPkgLock = TRUE
    /\ pkgLockData \in LockTrees(1)
    /\ findings = <<>>
    /\ visited = <<>>
    /\ InitMatcherIdle
    /\ FetchOver(compromised)

Init == InitManifest \/ InitLock \/ InitBoth

\* if (!Object.keys(compromised).length) process.exit(0)
MainCheckRegistry ==
    /\ pc = "fetched"
    /\ pc' = IF DOMAIN compromised = {} THEN "exit" ELSE "scanJSON"
    /\ UNCHANGED <<compromised, hasPkgJSON, pkgData, hasPkgLock, pkgLockData,
                   findings, visited, specifier, candidate, result, drawn>>
    /\ UNCHANGED fetchVars

\* try { pkgData = JSON.parse(...); findings = scanPackageJSON(...) } catch {}
MainScanPackageJSON ==
    /\ pc = "scanJSON"
    /\ findings' = IF hasPkgJSON THEN scanPackageJSON(pkgData, compromised)
                   ELSE findings
    /\ pc' = "scanLock"
    /\ UNCHANGED <<compromised, hasPkgJSON, pkgData, hasPkgLock, pkgLockData,
                   visited, specifier, candidate, result, drawn>>
    /\ UNCHANGED fetchVars

\* try { pkgLockData = JSON.parse(...); findings.push(...scanPackageLock(...)) }
\* catch {}
MainScanPackageLock ==
    /\ pc = "scanLock"
    /\ LET walk == lockEntryLoop(pkgLockData, compromised, <<>>, 1)
       IN  IF hasPkgLock
           THEN /\ findings' = findings \o scanPackageLock(pkgLockData, compromised)
                /\ visited' = PathsOf(walk)
           ELSE UNCHANGED <<findings, visited>>
    /\ pc' = "report"
    /\ UNCHANGED <<compromised, hasPkgJSON, pkgData, hasPkgLock, pkgLockData,
                   specifier, candidate, result, drawn>>
    /\ UNCHANGED fetchVars

\* the report and the database summary only print
MainReport ==
    /\ pc = "report"
    /\ pc' = "done"
    /\ UNCHANGED <<compromised, hasPkgJSON, pkgData, hasPkgLock, pkgLockData,
                   findings, visited, specifier, candidate, result, drawn>>
    /\ UNCHANGED fetchVars

Next ==
    \/ MainCheckRegistry
    \/ MainScanPackageJSON
    \/ MainScanPackageLock
    \/ MainReport

Spec == Init /\ [][Next]_vars

(***************************************************************************)
(* The merge of fetchCompromisedPackages, from the point where             *)
(* Promise.allSettled has delivered the results.  The first two results    *)
(* carry drawn fragments, the others carry {}.  The merge loop takes any   *)
(* object of Sets, so the drawn fragments include a package with an empty  *)
(* Set and version texts of any shape.                                     *)
(***************************************************************************)
V4110Dotted == V411 \o <<".", "0">>

FragmentVersions == {V410, V411, V4110Dotted}

FragmentSets == UniqueSeqs(FragmentVersions, MaxVers)

Fragments ==
    UNION {{[p \in ps |-> IF p = Tinycolor THEN t ELSE <<V411>>] : t \in FragmentSets}
           : ps \in SUBSET Pkgs}

InitMerge ==
    /\ pc = "settled"
    /\ \E A \in Fragments, B \in Fragments :
         AllParsed([i \in Sources |-> IF i = 1 THEN A ELSE IF i = 2 THEN B
                                       ELSE NoPackages])
    /\ masterList = NoPackages
    /\ compromised = NoPackages
    /\ hasPkgJSON = FALSE
    /\ pkgData = ManifestOf(<<>>)
    /\ hasPkgLock = FALSE
    /\ pkgLockData = <<>>
    /\ findings = <<>>
    /\ visited = <<>>
    /\ InitMatcherIdle

\* the continuation of `await Promise.allSettled(pendingRequests)`: the merge
\* loop, the conversion of every Set to an array in place, and the return
FetchMerge ==
    /\ pc = "settled"
    /\ masterList' = snapshot(mergeResults(NoPackages, results, 1))
    /\ compromised' = masterList'
    /\ pc' = "fetched"
    /\ UNCHANGED <<hasPkgJSON, pkgData, hasPkgLock, pkgLockData, findings, visited,
                   specifier, candidate, result, drawn>>
    /\ UNCHANGED <<req, promise, responseTimeout, pendingRequests, results>>

NextMerge == FetchMerge

SpecMerge == InitMerge /\ [][NextMerge]_vars

(***************************************************************************)
(* fetchURL and the fetch-and-parse tasks of fetchCompromisedPackages.     *)
(* req[i] is "waiting" (request sent, no response), "destroyed" (destroyed *)
(* before a response, its 'error' event still to come), "ignored" (error   *)
(* status, the response is not read), "reading" (listeners attached) or    *)
(* "closed".  promise[i] is "pending", "resolved" or the reason it was     *)
(* rejected with.                                                          *)
(***************************************************************************)
\* status codes from which fetchURL rejects
ErrorStatus == 400

StatusCodes == {200, 399, 400, 503}

Rejections == {"NetworkError", "RequestTimeout", "HTTPError", "ResponseTimeout"}

\* a promise settles at the first call of resolve or reject; later calls have
\* no effect
settle(i, outcome) ==
    [promise EXCEPT ![i] = IF @ = "pending" THEN outcome ELSE @]

\* what the page of each source parses to
SourceFragments ==
    << (Tinycolor :> <<V410>>),
       (Tinycolor :> <<V411, V410>>),
       (Angulartics :> <<V411>>),
       (Tinycolor :> <<V4110>>) @@ (Angulartics :> <<V411>>) >>

scanVars == <<compromised, hasPkgJSON, pkgData, hasPkgLock, pkgLockData,
              findings, visited, specifier, candidate, result, drawn>>

\* main is about to call fetchCompromisedPackages; both files are there
InitFetch ==
    /\ pc = "start"
    /\ FetchIdle
    /\ compromised = NoPackages
    /\ hasPkgJSON = TRUE
    /\ pkgData = ManifestOf(<<[section |-> "dependencies", pkg |-> Tinycolor,
                               versionRange |-> <<"~">> \o V410]>>)
    /\ hasPkgLock = TRUE
    /\ pkgLockData = <<[pkg |-> Angulartics, version |-> V411,
                        dependencies |-> <<>>]>>
    /\ findings = <<>>
    /\ visited = <<>>
    /\ InitMatcherIdle

\* the for loop over ADVISORY_SOURCES: every task starts and runs up to its
\* `await fetchURL(src.url)`; then fetchCompromisedPackages awaits allSettled
FetchStart ==
    /\ pc = "start"
    /\ pc' = "fetching"
    /\ req' = [i \in Sources |-> "waiting"]
    /\ promise' = [i \in Sources |-> "pending"]
    /\ pendingRequests' = [i \in Sources |-> [status |-> "pending", via |-> "none",
                                               value |-> NoPackages]]
    /\ UNCHANGED <<responseTimeout, results, masterList>>
    /\ UNCHANGED scanVars

\* req.on('error', reject): the connection fails before a response, or the
\* destroyed request reports its error
RequestError(i) ==
    /\ req[i] \in {"waiting", "destroyed"}
    /\ req' = [req EXCEPT ![i] = "closed"]
    /\ promise' = settle(i, "NetworkError")
    /\ UNCHANGED <<pc, responseTimeout, pendingRequests, results, masterList>>
    /\ UNCHANGED scanVars

\* req.on('timeout', ...): the socket was idle for `timeout` ms
RequestTimeout(i) ==
    /\ req[i] \in {"waiting", "ignored", "reading"}
    /\ req' = [req EXCEPT ![i] = IF @ = "waiting" THEN "destroyed" ELSE "closed"]
    /\ promise' = settle(i, "RequestTimeout")
    /\ UNCHANGED <<pc, responseTimeout, pendingRequests, results, masterList>>
    /\ UNCHANGED scanVars

SpecManifest == InitManifest /\ [][Next]_vars

SpecLock == InitLock /\ [][Next]_vars

\* the response callback without the timer for reading the body
ResponseNoTimer(i, statusCode) ==
    /\ req[i] = "waiting"
    /\ IF statusCode >= ErrorStatus
       THEN /\ promise' = settle(i, "HTTPError")
            /\ req' = [req EXCEPT ![i] = "ignored"]
       ELSE /\ req' = [req EXCEPT ![i] = "reading"]
            /\ UNCHANGED promise
    /\ UNCHANGED <<pc, responseTimeout, pendingRequests, results, masterList>>
    /\ UNCHANGED scanVars

\* the response callback of https.get: reject on an error status, otherwise
\* attach the 'data' and 'end' listeners and set the timer
Response(i, statusCode) ==
    /\ req[i] = "waiting"
    /\ IF statusCode >= ErrorStatus
       THEN /\ promise' = settle(i, "HTTPError")
            /\ req' = [req EXCEPT ![i] = "ignored"]
            /\ UNCHANGED responseTimeout
       ELSE /\ req' = [req EXCEPT ![i] = "reading"]
            /\ responseTimeout' = [responseTimeout EXCEPT ![i] = "armed"]
            /\ UNCHANGED promise
    /\ UNCHANGED <<pc, pendingRequests, results, masterList>>
    /\ UNCHANGED scanVars

\* res.on('end', ...): clearTimeout(responseTimeout); resolve(data)
ResponseEnd(i) ==
    /\ req[i] = "reading"
    /\ req' = [req EXCEPT ![i] = "closed"]
    /\ responseTimeout' = [responseTimeout EXCEPT
                             ![i] = IF @ = "armed" THEN "cleared" ELSE @]
    /\ promise' = settle(i, "resolved")
    /\ UNCHANGED <<pc, pendingRequests, results, masterList>>
    /\ UNCHANGED scanVars

\* the connection is lost while the body is read: no 'end' event, and no
\* listener of fetchURL runs
ResponseAborted(i) ==
    /\ req[i] = "reading"
    /\ req' = [req EXCEPT ![i] = "closed"]
    /\ UNCHANGED <<pc, promise, responseTimeout, pendingRequests, results, masterList>>
    /\ UNCHANGED scanVars

\* the callback of setTimeout in the response callback
ResponseTimeoutFires(i) ==
    /\ responseTimeout[i] = "armed"
    /\ responseTimeout' = [responseTimeout EXCEPT ![i] = "fired"]
    /\ promise' = settle(i, "ResponseTimeout")
    /\ UNCHANGED <<pc, req, pendingRequests, results, masterList>>
    /\ UNCHANGED scanVars

\* the task resumes after `await fetchURL(src.url)`: it returns what the
\* parser returns, {} when the parser throws, {} when fetchURL rejected
TaskContinue(i) ==
    /\ pendingRequests[i].status = "pending"
    /\ promise[i] # "pending"
    /\ IF promise[i] = "resolved"
       THEN \E parses \in BOOLEAN :
              pendingRequests' =
                [pendingRequests EXCEPT
                   ![i] = IF parses
                          THEN [status |-> "fulfilled", via |-> "parsed",
                                value |-> SourceFragments[i]]
                          ELSE [status |-> "fulfilled", via |-> "parseThrew",
                                value |-> NoPackages]]
       ELSE pendingRequests' =
              [pendingRequests EXCEPT
                 ![i] = [status |-> "fulfilled", via |-> "fetchFailed",
                         value |-> NoPackages]]
    /\ UNCHANGED <<pc, req, promise, responseTimeout, results, masterList>>
    /\ UNCHANGED scanVars

\* a combinator that is done as soon as one task has settled
anySettled(pending) == \E i \in Sources : pending[i].status # "pending"

\* Promise.allSettled is done when no task is pending
allSettled(pending) == \A i \in Sources : pending[i].status # "pending"

\* const results = await Promise.allSettled(pendingRequests)
AllSettled ==
    /\ pc = "fetching"
    /\ allSettled(pendingRequests)
    /\ results' = [i \in Sources |-> Fulfilled(pendingRequests[i].value)]
    /\ pc' = "settled"
    /\ UNCHANGED <<req, promise, responseTimeout, pendingRequests, masterList>>
    /\ UNCHANGED scanVars

NextFetch ==
    \/ FetchStart
    \/ \E i \in Sources : RequestError(i)
    \/ \E i \in Sources : RequestTimeout(i)
    \/ \E i \in Sources : \E statusCode \in StatusCodes : Response(i, statusCode)
    \/ \E i \in Sources : ResponseEnd(i)
    \/ \E i \in Sources : ResponseAborted(i)
    \/ \E i \in Sources : ResponseTimeoutFires(i)
    \/ \E i \in Sources : TaskContinue(i)
    \/ AllSettled
    \/ FetchMerge
    \/ MainCheckRegistry
    \/ MainScanPackageJSON
    \/ MainScanPackageLock
    \/ MainReport

SpecFetch == InitFetch /\ [][NextFetch]_vars

\* A socket that stays idle gets its 'timeout' event, a timer that is set and
\* not cleared fires, and a continuation that is ready runs.  Nothing makes
\* a response arrive or a body end.
FetchFairness ==
    /\ WF_vars(FetchStart)
    /\ WF_vars(\E i \in Sources : req[i] = "waiting" /\ RequestTimeout(i))
    /\ WF_vars(\E i \in Sources : ResponseTimeoutFires(i))
    /\ WF_vars(\E i \in Sources : TaskContinue(i))
    /\ WF_vars(AllSettled)
    /\ WF_vars(FetchMerge)

SpecFetchFair == SpecFetch /\ FetchFairness

(***************************************************************************)
(* Properties of the matcher.                                              *)
(***************************************************************************)
\* the (major, minor, patch) order on drawn triples
TripleLeq(x, y) ==
    \/ x[1] < y[1]
    \/ x[1] = y[1] /\ x[2] < y[2]
    \/ x[1] = y[1] /\ x[2] = y[2] /\ x[3] <= y[3]

TripleLess(x, y) == TripleLeq(x, y) /\ x # y

Matched(kind) == pc = "matched" /\ drawn.kind = kind

DrawnBase == drawn.clauses[1].v

\* C2: a specifier made only of digits and dots matches a candidate iff the
\* two texts are equal.
C2_ExactIsVerbatim ==
    Matched("exact") => (result <=> specifier = candidate)

\* C7: "~A.B.C" matches a candidate iff the candidate has major A, minor B and
\* a patch of at least C.
C7_Tilde ==
    Matched("tilde") =>
        (result <=> /\ drawn.version[1] = DrawnBase[1]
                    /\ drawn.version[2] = DrawnBase[2]
                    /\ drawn.version[3] >= DrawnBase[3])

\* a tilde range accepted a candidate with a higher, two-digit patch
C7_Witness ==
    /\ Matched("tilde")
    /\ result
    /\ drawn.version[3] = 10
    /\ DrawnBase[3] = 1

\* C11: a specifier A.x, A.B.x, A.* or A.B.* matches a candidate iff every
\* fixed component equals the candidate's component at the same position,
\* whatever the candidate's remaining components are.
C11_Wildcard ==
    Matched("wildcard") =>
        (result <=> \A i \in 1..Len(DrawnBase) : drawn.version[i] = DrawnBase[i])

\* "A.B.x" accepted a candidate with patch 10 and a pre-release suffix
C11_Witness ==
    /\ Matched("wildcard")
    /\ result
    /\ Len(DrawnBase) = 2
    /\ drawn.clauses[1].op = <<"x">>
    /\ drawn.version[3] = 10
    /\ drawn.suffix # <<>>

\* C12: when the version text of a specifier is a word, so that parseVersion
\* yields (0, 0, 0), the result is the substring fallback: true iff the
\* candidate text occurs inside the specifier text.
C12_UnparsableFallsBack ==
    Matched("unparsable") => (result <=> Includes(specifier, candidate))

\* C8: "^0.B.C" matches iff the candidate is 0.B.p with p >= C; "^A.B.C" with
\* A > 0 matches iff the candidate has major A and (minor, patch) >= (B, C).
C8_Caret ==
    Matched("caret") =>
        (result <=>
            IF DrawnBase[1] = 0
            THEN /\ drawn.version[1] = 0
                 /\ drawn.version[2] = DrawnBase[2]
                 /\ drawn.version[3] >= DrawnBase[3]
            ELSE /\ drawn.version[1] = DrawnBase[1]
                 /\ TripleLeq(DrawnBase, drawn.version))

\* a caret range with a 0 major rejected a candidate 0.m.p with a higher minor
C8_Witness ==
    /\ Matched("caret")
    /\ ~result
    /\ DrawnBase[1] = 0
    /\ drawn.version[1] = 0
    /\ drawn.version[2] > DrawnBase[2]

\* C9: "A - B" matches a candidate iff A <= candidate <= B in the
\* (major, minor, patch) order.
C9_Hyphen ==
    Matched("hyphen") =>
        (result <=> /\ TripleLeq(drawn.clauses[1].v, drawn.version)
                    /\ TripleLeq(drawn.version, drawn.clauses[2].v))

\* a hyphen range accepted a candidate equal to its upper end and above its
\* lower end
C9_Witness ==
    /\ Matched("hyphen")
    /\ result
    /\ drawn.version = drawn.clauses[2].v
    /\ TripleLess(drawn.clauses[1].v, drawn.version)

\* what a comparator token with a recognised prefix asks of the candidate
ClauseHolds(c, v) ==
    IF c.op = <<">", "=">> THEN TripleLeq(c.v, v)
    ELSE IF c.op = <<">">> THEN TripleLess(c.v, v)
    ELSE IF c.op = <<"<", "=">> THEN TripleLeq(v, c.v)
    ELSE TripleLess(v, c.v)

IsChain ==
    /\ Matched("chain")
    /\ \E i \in 1..Len(drawn.clauses) : drawn.clauses[i].op \in RecognisedOps

\* C10: a comparator chain matches iff every token with a recognised prefix
\* holds for the candidate; tokens with another prefix are ignored.
C10_ComparatorChain ==
    IsChain =>
        (result <=>
            \A i \in 1..Len(drawn.clauses) :
                drawn.clauses[i].op \in RecognisedOps
                    => ClauseHolds(drawn.clauses[i], drawn.version))

\* a chain matched although it holds a token with an unknown prefix whose
\* version is not the candidate's, next to an inclusive bound met with equality
C10_Witness ==
    /\ IsChain
    /\ result
    /\ \E i, j \in 1..Len(drawn.clauses) :
         /\ drawn.clauses[i].op = <<"=">>
         /\ drawn.clauses[i].v # drawn.version
         /\ drawn.clauses[j].op = <<">", "=">>
         /\ drawn.clauses[j].v = drawn.version

(***************************************************************************)
(* Properties of the manifest scan.                                        *)
(***************************************************************************)
AfterJSON == hasPkgJSON /\ pc \in {"scanLock", "report", "done"}

\* some compromised version of the package equals or satisfies the text
Hit(pkg, text) ==
    /\ pkg \in DOMAIN compromised
    /\ \E v \in Range(compromised[pkg]) : text = v \/ satisfiesRange(text, v)

\* positions of the findings reported for (pkg, section)
FindingsFor(pkg, sec) ==
    {j \in 1..Len(findings) : findings[j].pkg = pkg /\ findings[j].section = sec}

Declared(sec) == pkgData[sec]

\* C1: the manifest scan reports exactly one finding for a declaration whose
\* package is in the registry with a compromised version that equals or
\* satisfies the specifier, and none for any other declaration.
C1_ManifestFindings ==
    AfterJSON =>
        /\ \A sec \in Range(sections) :
             \A k \in 1..Len(Declared(sec)) :
                Cardinality(FindingsFor(Declared(sec)[k].pkg, sec))
                    = IF Hit(Declared(sec)[k].pkg, Declared(sec)[k].versionRange)
                      THEN 1 ELSE 0
        /\ \A j \in 1..Len(findings) :
             findings[j].section # "package-lock" =>
                /\ findings[j].section \in Range(sections)
                /\ \E k \in 1..Len(Declared(findings[j].section)) :
                     Declared(findings[j].section)[k].pkg = findings[j].pkg

\* a declaration satisfied by two compromised versions got one finding while
\* another declaration of the same manifest got none
C1_Witness ==
    /\ AfterJSON
    /\ \E s1, s2 \in Range(sections) :
         \E k1 \in 1..Len(Declared(s1)) :
           \E k2 \in 1..Len(Declared(s2)) :
             /\ Declared(s1)[k1].pkg \in DOMAIN compromised
             /\ Len(compromised[Declared(s1)[k1].pkg]) = 2
             /\ \A v \in Range(compromised[Declared(s1)[k1].pkg]) :
                  satisfiesRange(Declared(s1)[k1].versionRange, v)
             /\ Cardinality(FindingsFor(Declared(s1)[k1].pkg, s1)) = 1
             /\ FindingsFor(Declared(s2)[k2].pkg, s2) = {}

\* C3: when the declared text is equal to one of the package's compromised
\* versions, the finding carries the plain text, without "(matches X)".
C3_ExactHitPlain ==
    AfterJSON =>
        \A sec \in Range(sections) :
          \A k \in 1..Len(Declared(sec)) :
            (/\ Declared(sec)[k].pkg \in DOMAIN compromised
             /\ Declared(sec)[k].versionRange
                    \in Range(compromised[Declared(sec)[k].pkg]))
            => \A j \in FindingsFor(Declared(sec)[k].pkg, sec) :
                 findings[j].version = Declared(sec)[k].versionRange

\* the scenario of C4: registry {"@ctrl/tinycolor": ["4.1.0", "4.1.1"]} and
\* the one declaration "@ctrl/tinycolor": "~4.1.0" under dependencies
C4_Scenario ==
    /\ AfterJSON
    /\ compromised = RegistryOf(<<V410, V411>>, <<>>)
    /\ pkgData = ManifestOf(<<[section |-> "dependencies", pkg |-> Tinycolor,
                              versionRange |-> <<"~">> \o V410]>>)

\* C4 as stated: the one finding is annotated "(matches 4.1.1)".
C4_Original ==
    C4_Scenario =>
        findings = <<[pkg |-> Tinycolor,
                      version |-> MatchesText(<<"~">> \o V410, V411),
                      section |-> "dependencies"]>>

\* C4 as amended: the one finding is annotated with the first compromised
\* version of the list that satisfies the range, "(matches 4.1.0)".
C4_FirstSatisfying ==
    C4_Scenario =>
        findings = <<[pkg |-> Tinycolor,
                      version |-> MatchesText(<<"~">> \o V410, V410),
                      section |-> "dependencies"]>>

\* the scenario was scanned and gave one finding
C4_Witness == C4_Scenario /\ Len(findings) = 1

(***************************************************************************)
(* Properties of the lock-tree scan.                                       *)
(***************************************************************************)
AfterLock == hasPkgLock /\ pc \in {"report", "done"}

\* paths (child indices from the root) of all nodes of a dependency map
RECURSIVE TreePaths(_)
TreePaths(deps) ==
    UNION {{<<i>>} \cup {<<i>> \o q : q \in TreePaths(deps[i].dependencies)}
            : i \in 1..Len(deps)}

RECURSIVE NodeAt(_, _)
NodeAt(deps, path) ==
    IF Len(path) = 1 THEN deps[path[1]]
    ELSE NodeAt(deps[path[1]].dependencies, Tail(path))

LockNode(path) == NodeAt(pkgLockData, path)

LockHit(path) ==
    /\ LockNode(path).version # <<>>
    /\ Hit(LockNode(path).pkg, LockNode(path).version)

LockFindings == SelectSeq(findings, LAMBDA f : f.section = "package-lock")

\* C5: a compromised node below a node without a version field still yields
\* a finding: every node with a version that hits is reported.
C5_VersionlessSubtree ==
    AfterLock =>
        Len(LockFindings) = Cardinality({q \in TreePaths(pkgLockData) : LockHit(q)})

\* p comes before q in depth-first pre-order
PreorderBefore(p, q) ==
    LET m == IF Len(p) < Len(q) THEN Len(p) ELSE Len(q)
        diff == {k \in 1..m : p[k] # q[k]}
    IN  IF diff = {} THEN Len(p) < Len(q)
        ELSE LET k == CHOOSE d \in diff : \A e \in diff : d <= e
             IN  p[k] < q[k]

AllVersioned == \A q \in TreePaths(pkgLockData) : LockNode(q).version # <<>>

\* the visited nodes that hit, in visiting order
VisitedHits == SelectSeq(visited, LockHit)

\* C6: in a tree whose nodes all have a version, every node is visited once,
\* in depth-first pre-order, and the findings are one per node that hits, in
\* that order, whether or not its parent was reported.
C6_LockPreorder ==
    (AfterLock /\ AllVersioned) =>
        /\ Range(visited) = TreePaths(pkgLockData)
        /\ Len(visited) = Cardinality(TreePaths(pkgLockData))
        /\ \A i, j \in 1..Len(visited) :
             i < j => PreorderBefore(visited[i], visited[j])
        /\ (~hasPkgJSON => findings = LockFindings)
        /\ Len(LockFindings) = Len(VisitedHits)
        /\ \A k \in 1..Len(VisitedHits) :
             LET node == LockNode(VisitedHits[k])
                 f == LockFindings[k]
             IN  /\ f.pkg = node.pkg
                 /\ \/ f.version = node.version
                    \/ \E v \in Range(compromised[node.pkg]) :
                         /\ satisfiesRange(node.version, v)
                         /\ f.version = MatchesText(node.version, v)

\* a reported parent, a reported child below it and a sibling after them
C6_Witness ==
    /\ AfterLock
    /\ AllVersioned
    /\ visited = <<<<1>>, <<1, 1>>, <<2>>>>
    /\ LockHit(<<1>>)
    /\ LockHit(<<1, 1>>)
    /\ Len(LockFindings) >= 2

(***************************************************************************)
(* Properties of the merge.                                                *)
(***************************************************************************)
Merged == pc = "fetched"

Reverse(rs) == [i \in 1..Len(rs) |-> rs[Len(rs) + 1 - i]]

NoRepetition(list) ==
    \A i \in 1..Len(list), j \in 1..Len(list) : list[i] = list[j] => i = j

\* C13: merging the fragments in the opposite order gives the same snapshot,
\* version lists compared as ordered lists.
C13_MergeCommutes ==
    Merged => compromised = snapshot(mergeResults(NoPackages, Reverse(results), 1))

\* C13 as the merge has it: merging the fragments in the opposite order gives
\* a snapshot with the same packages and, for every package, the same set of
\* versions; the order within a list is the order of first insertion.
C13_MergeCommutesAsSets ==
    Merged =>
        LET other == snapshot(mergeResults(NoPackages, Reverse(results), 1))
        IN  /\ DOMAIN other = DOMAIN compromised
            /\ \A p \in DOMAIN compromised :
                  /\ Range(other[p]) = Range(compromised[p])
                  /\ Len(other[p]) = Len(compromised[p])

\* two fragments with different versions of the same package were merged; the
\* opposite order gives the same versions in another order
C13_Witness ==
    /\ Merged
    /\ Tinycolor \in DOMAIN results[1].value
    /\ Tinycolor \in DOMAIN results[2].value
    /\ Len(compromised[Tinycolor]) >= 2
    /\ Angulartics \in DOMAIN results[2].value
    /\ Angulartics \notin DOMAIN results[1].value
    /\ compromised # snapshot(mergeResults(NoPackages, Reverse(results), 1))

\* C14: merging a fragment that was merged before leaves the registry and its
\* snapshot as they are; no list holds a version twice, and every version text
\* of a merged fragment is an entry of its package's list.
C14_MergeIdempotent ==
    Merged =>
        /\ \A i \in 1..Len(results) :
              LET again == mergeFragment(masterList, results[i].value)
              IN  again = masterList /\ snapshot(again) = compromised
        /\ \A p \in DOMAIN compromised : NoRepetition(compromised[p])
        /\ \A i \in 1..Len(results) :
              \A p \in DOMAIN results[i].value :
                /\ p \in DOMAIN compromised
                /\ Range(results[i].value[p]) \subseteq Range(compromised[p])

\* two fragments sharing "4.1.1" were merged, one of them also bringing
\* "4.1.1.0"; the list holds both texts
C14_Witness ==
    /\ Merged
    /\ Tinycolor \in DOMAIN results[1].value
    /\ Tinycolor \in DOMAIN results[2].value
    /\ V411 \in Range(results[1].value[Tinycolor])
    /\ V411 \in Range(results[2].value[Tinycolor])
    /\ V4110Dotted \in Range(results[2].value[Tinycolor])
    /\ Len(compromised[Tinycolor]) = 2

Succeeded == {i \in Sources : pendingRequests[i].via = "parsed"}

Failed == {i \in Sources : pendingRequests[i].via \in {"fetchFailed", "parseThrew"}}

\* places (source, position) where version v of package p is listed by a
\* source that succeeded
Occurrences(p, v) ==
    {x \in Succeeded \X (1..3) :
        /\ p \in DOMAIN SourceFragments[x[1]]
        /\ x[2] <= Len(SourceFragments[x[1]][p])
        /\ SourceFragments[x[1]][p][x[2]] = v}

Earlier(x, y) == x[1] < y[1] \/ (x[1] = y[1] /\ x[2] < y[2])

FirstOccurrence(p, v) ==
    CHOOSE x \in Occurrences(p, v) : \A y \in Occurrences(p, v) : x = y \/ Earlier(x, y)

\* list is the versions the succeeded sources list for p, each once, in the
\* order of ADVISORY_SOURCES and, within a source, of its fragment
IsMergeInSourceOrder(p, list) ==
    /\ NoRepetition(list)
    /\ \A v \in {V410, V411, V4110} :
          v \in Range(list) <=> Occurrences(p, v) # {}
    /\ \A a \in 1..Len(list), b \in 1..Len(list) :
          a < b => Earlier(FirstOccurrence(p, list[a]), FirstOccurrence(p, list[b]))

Returned == pc \in {"fetched", "exit", "scanJSON", "scanLock", "report", "done"}

\* C16: whatever sources fail, by a rejected fetch or a throwing parser, and
\* in whatever order the tasks finish, the registry returned is the merge, in
\* the order of ADVISORY_SOURCES, of the fragments of the sources that
\* succeeded and of nothing else.
C16_FailureIsolation ==
    Returned =>
        /\ DOMAIN compromised =
              {p \in Pkgs : \E i \in Succeeded : p \in DOMAIN SourceFragments[i]}
        /\ \A p \in DOMAIN compromised : IsMergeInSourceOrder(p, compromised[p])

\* the first and the fourth source failed, one in its parser and one by an
\* error status; the registry holds what the second and the third source list
C16_Witness ==
    /\ pc = "fetched"
    /\ pendingRequests[1].via = "parseThrew"
    /\ pendingRequests[4].via = "fetchFailed"
    /\ promise[4] = "HTTPError"
    /\ Succeeded = {2, 3}
    /\ compromised = (Tinycolor :> <<V411, V410>>) @@ (Angulartics :> <<V411>>)

EveryTaskSettled == \A i \in Sources : pendingRequests[i].status = "fulfilled"

\* C17: masterList and the registry main receives change only once every
\* fetch-and-parse task has settled; a scan adds findings only when the
\* registry is the finished merge of all results; and no step from the return
\* of fetchCompromisedPackages on, the two scans included, changes the
\* registry.
C17_PhaseOrdering ==
    [][/\ (masterList' # masterList \/ compromised' # compromised) =>
             (pc = "settled" /\ EveryTaskSettled)
       /\ (findings' # findings \/ visited' # visited) =>
             /\ pc \in {"scanJSON", "scanLock"}
             /\ EveryTaskSettled
             /\ compromised = snapshot(mergeResults(NoPackages, results, 1))
       /\ Returned => compromised' = compromised]_vars

\* both scans ran against a registry merged while a source had failed, and
\* each reported a finding
C17_Witness ==
    /\ pc = "done"
    /\ Failed # {}
    /\ Len(findings) = 2
    /\ visited # <<>>

\* C18: fetchCompromisedPackages returns in the end, and by then the promise
\* of every fetchURL call has settled; a settled promise keeps its outcome
\* and a fulfilled fetch-and-parse task keeps its value.
C18_FetchSettles ==
    /\ [][\A i \in Sources :
            /\ promise[i] \in Rejections \cup {"resolved"} => promise'[i] = promise[i]
            /\ pendingRequests[i].status = "fulfilled" =>
                  pendingRequests'[i] = pendingRequests[i]]_vars
    /\ [](Returned => \A i \in Sources : promise[i] \in Rejections \cup {"resolved"})
    /\ <>Returned

\* fetchCompromisedPackages returned after a network error, a request
\* timeout, a body that stalled until the timer fired, and a complete body
C18_Witness ==
    /\ pc = "fetched"
    /\ \E f \in [Sources -> Rejections \cup {"resolved"}] :
         /\ promise = f
         /\ {f[i] : i \in Sources} =
               {"NetworkError", "RequestTimeout", "ResponseTimeout", "resolved"}
    /\ \E i \in Sources : responseTimeout[i] = "fired" /\ req[i] = "reading"

\* an error status is among the outcomes after which fetchCompromisedPackages
\* returned, next to a promise rejected twice over: by the request timeout and
\* then by the error of the destroyed request
C18_WitnessStatus ==
    /\ pc = "fetched"
    /\ \E i \in Sources : promise[i] = "HTTPError"
    /\ \E i \in Sources : promise[i] = "RequestTimeout" /\ req[i] = "closed"

====
